---- MODULE Spec2Model ----
(***************************************************************************)
(* Model of github.com/goaux/backoff: iterators over retry attempts.       *)
(*                                                                         *)
(* newBackOff (attempt-index mode) drives backoff.Retry of                 *)
(* github.com/cenkalti/backoff/v4 with a task that yields the attempt      *)
(* index; newBackOffDuration (duration mode) calls NextBackOff in a loop   *)
(* and yields (index, duration) pairs.  Durations are integers (one unit   *)
(* of time.Duration), Stop is the library's sentinel -1, floating point    *)
(* factors are exact rationals <<numerator, denominator>>.                 *)
(*                                                                         *)
(* The library is a dependency whose source is not part of the repository. *)
(* What the model takes from it (release v4.3.0, the first with the        *)
(* ExponentialBackOffOpts the repository uses):                            *)
(*   - Retry: b.Reset(); loop { operation(); nil ends; next :=             *)
(*     b.NextBackOff(); Stop ends; t.Start(next); select on ctx.Done()     *)
(*     (ends) and t.C() (loops) }, ctx being Background without WithContext*)
(*   - backOffContext.NextBackOff: Stop when ctx is done, without calling  *)
(*     the wrapped strategy                                                *)
(*   - backOffTries.NextBackOff: Stop when maxTries <= numTries, else      *)
(*     numTries++ and the delegate's result; Reset sets numTries to 0      *)
(*   - ExponentialBackOff.NextBackOff: the jittered currentInterval, the   *)
(*     interval then multiplied and capped at MaxInterval; Stop when       *)
(*     MaxElapsedTime # 0 and elapsed + next exceeds it                    *)
(*   - a select blocked on two channels is woken by the first that becomes *)
(*     ready; when both are ready on entry either case may be taken        *)
(***************************************************************************)
EXTENDS Integers, Sequences, FiniteSets, TLC

(* ---------------------------- bounds ---------------------------------- *)
MaxN == 3          \* largest WithMaxRetries value explored
MaxIndex == 4      \* largest attempt index a consumer is asked to continue to
MaxClock == 4      \* the clock is explored up to this reading
MaxRuns == 2       \* invocations of the same factory

(* ------------------------ library constants ---------------------------- *)
Stop == 0 - 1      \* backoff.Stop: "no more retries"

Intervals == {0 - 1, 0, 1, 2}
InitialIntervals == {1, 2}
Multipliers == {<<3, 2>>, <<2, 1>>}
MaxIntervals == {3}
MaxElapsedTimes == {0, 4}

VARIABLES
    policy,     \* the factory's captured option struct (constantOption / exponentialOption)
    run,        \* how many times the factory's sequence has been started
    mode,       \* "index" (BackOff) or "duration" (BackOffDuration) of the current run
    ctx,        \* the context given to this run: "nil", "live" or "done"
    pc,         \* position of the iteration
    i,          \* the attempt index variable of the closure
    b,          \* the strategy instance created by fn()
    now,        \* the clock
    timer,      \* the Retry loop's timer
    wake,       \* which case woke a parked select: "none", "ctx" or "timer"
    yielded,    \* indices handed to the consumer in this run
    pairs,      \* (index, duration) pairs handed to the consumer in this run
    waits,      \* delays of the waits that ran to expiry in this run
    calls,      \* results of the strategy calls of this run, in order
    how,        \* how the run ended: "running", "stop", "break" or "cancel"
    prevHow,    \* how the previous run of the same factory ended ("none": there is none)
    cancelAt,   \* where the iteration was when its context was cancelled during this run
    given,      \* the arguments the factory's constructor was called with
    other,      \* the local state of a second sequence of the same factory, while
                \* the scheduler runs the first (and the other way round)
    probes      \* what was done with the strategy instance of a sequence that ended by
                \* Stop: NextBackOff calls with their results, readings given to its clock

vars == <<policy, run, mode, ctx, pc, i, b, now, timer, wake, yielded, pairs,
          waits, calls, how, prevHow, cancelAt, given, other, probes>>

(* ------------------------- options and policies ------------------------ *)

\* func WithMaxRetries(max uint64) Option
WithMaxRetries(max) == [name |-> "MaxRetries", v |-> max]

WithInitialInterval(d) == [name |-> "InitialInterval", v |-> d]

WithRandomizationFactor(v) == [name |-> "RandomizationFactor", v |-> v]

WithMultiplier(v) == [name |-> "Multiplier", v |-> v]

WithMaxInterval(d) == [name |-> "MaxInterval", v |-> d]

WithMaxElapsedTime(d) == [name |-> "MaxElapsedTime", v |-> d]

\* variant: a limit already set is kept, the first WithMaxRetries wins
applyToConstantOptionFirstWins(o, co) ==
    IF co.MaxRetries = 0 THEN [co EXCEPT !.MaxRetries = o.v] ELSE co

\* maxRetries.applyToConstantOption
applyToConstantOption(o, co) == [co EXCEPT !.MaxRetries = o.v]

\* maxRetries.applyToExponentialOption / opts.applyToExponentialOption
applyToExponentialOption(o, eo) ==
    IF o.name = "MaxRetries"
    THEN [eo EXCEPT !.MaxRetries = o.v]
    ELSE [eo EXCEPT !.Options = Append(eo.Options, o)]

RECURSIVE applyConstantOptions(_, _)
applyConstantOptions(co, options) ==
    IF options = <<>> THEN co
    ELSE applyConstantOptions(applyToConstantOption(Head(options), co), Tail(options))

RECURSIVE applyExponentialOptions(_, _)
applyExponentialOptions(eo, options) ==
    IF options = <<>> THEN eo
    ELSE applyExponentialOptions(applyToExponentialOption(Head(options), eo), Tail(options))

\* func newConstantOption(interval, options...) *constantOption
newConstantOption(interval, options) ==
    applyConstantOptions(
        [family |-> "constant", Interval |-> interval, MaxRetries |-> 0, Options |-> <<>>],
        options)

\* func newExponentialOption(options...) *exponentialOption
newExponentialOption(options) ==
    applyExponentialOptions(
        [family |-> "exponential", Interval |-> 0, MaxRetries |-> 0, Options |-> <<>>],
        options)

(* --------------------------- strategies -------------------------------- *)

\* Defaults of backoff.NewExponentialBackOff, in milliseconds.
DefaultInitialInterval == 500
DefaultRandomizationFactor == <<1, 2>>
DefaultMultiplier == <<3, 2>>
DefaultMaxInterval == 60000
DefaultMaxElapsedTime == 900000

\* The value of b before any sequence has been started.
NoBackOff ==
    [type |-> "None", Interval |-> 0, limited |-> FALSE, maxTries |-> 0, numTries |-> 0,
     InitialInterval |-> 0, RandomizationFactor |-> <<0, 1>>, Multiplier |-> <<1, 1>>,
     MaxInterval |-> 0, MaxElapsedTime |-> 0, Stop |-> Stop,
     currentInterval |-> 0, startTime |-> 0]

\* ExponentialBackOff.Reset: currentInterval = InitialInterval, startTime = Clock.Now()
\* (the other strategies' Reset does nothing)
ResetDelegate(bb, clock) ==
    IF bb.type = "Exponential"
    THEN [bb EXCEPT !.currentInterval = bb.InitialInterval, !.startTime = clock]
    ELSE bb

\* backOffTries.Reset: numTries = 0, then the delegate's Reset
Reset(bb, clock) == ResetDelegate([bb EXCEPT !.numTries = 0], clock)

\* backoff.WithMaxRetries(b, max): wraps b in a backOffTries
LibWithMaxRetries(bb, max) == [bb EXCEPT !.limited = TRUE, !.maxTries = max, !.numTries = 0]

\* One ExponentialBackOffOpts applied to the strategy under construction.
ApplyOpt(bb, o) ==
    CASE o.name = "InitialInterval" -> [bb EXCEPT !.InitialInterval = o.v]
      [] o.name = "RandomizationFactor" -> [bb EXCEPT !.RandomizationFactor = o.v]
      [] o.name = "Multiplier" -> [bb EXCEPT !.Multiplier = o.v]
      [] o.name = "MaxInterval" -> [bb EXCEPT !.MaxInterval = o.v]
      [] o.name = "MaxElapsedTime" -> [bb EXCEPT !.MaxElapsedTime = o.v]
      [] OTHER -> bb

RECURSIVE ApplyOpts(_, _)
ApplyOpts(bb, opts) ==
    IF opts = <<>> THEN bb ELSE ApplyOpts(ApplyOpt(bb, Head(opts)), Tail(opts))

\* backoff.NewExponentialBackOff(opts...): defaults, then the options in order, then Reset
NewExponentialBackOff(opts, clock) ==
    ResetDelegate(
        ApplyOpts([NoBackOff EXCEPT !.type = "Exponential",
                                    !.InitialInterval = DefaultInitialInterval,
                                    !.RandomizationFactor = DefaultRandomizationFactor,
                                    !.Multiplier = DefaultMultiplier,
                                    !.MaxInterval = DefaultMaxInterval,
                                    !.MaxElapsedTime = DefaultMaxElapsedTime],
                  opts),
        clock)

\* variant: the zero test is inverted, a positive interval gets the ZeroBackOff
constantOptionNewSwapped(co) ==
    IF co.Interval < 0
    THEN [NoBackOff EXCEPT !.type = "Stop"]
    ELSE LET base == IF co.Interval # 0
                     THEN [NoBackOff EXCEPT !.type = "Zero"]
                     ELSE [NoBackOff EXCEPT !.type = "Constant", !.Interval = co.Interval]
         IN IF co.MaxRetries > 0 THEN LibWithMaxRetries(base, co.MaxRetries) ELSE base

\* variant: the limiter is not installed
constantOptionNewUnlimited(co) ==
    IF co.Interval < 0
    THEN [NoBackOff EXCEPT !.type = "Stop"]
    ELSE IF co.Interval = 0
         THEN [NoBackOff EXCEPT !.type = "Zero"]
         ELSE [NoBackOff EXCEPT !.type = "Constant", !.Interval = co.Interval]

\* variant: a negative interval is treated like a zero interval
constantOptionNewNoStop(co) ==
    LET base == IF co.Interval <= 0
                THEN [NoBackOff EXCEPT !.type = "Zero"]
                ELSE [NoBackOff EXCEPT !.type = "Constant", !.Interval = co.Interval]
    IN IF co.MaxRetries > 0 THEN LibWithMaxRetries(base, co.MaxRetries) ELSE base

\* variant: the limiter is installed whatever MaxRetries is; backoff.WithMaxRetries
\* with a limit of 0 allows no retry at all
constantOptionNewAlwaysLimited(co) ==
    IF co.Interval < 0
    THEN [NoBackOff EXCEPT !.type = "Stop"]
    ELSE LET base == IF co.Interval = 0
                     THEN [NoBackOff EXCEPT !.type = "Zero"]
                     ELSE [NoBackOff EXCEPT !.type = "Constant", !.Interval = co.Interval]
         IN LibWithMaxRetries(base, co.MaxRetries)

\* func (co *constantOption) New() backoff.BackOff
constantOptionNew(co) ==
    IF co.Interval < 0
    THEN [NoBackOff EXCEPT !.type = "Stop"]
    ELSE LET base == IF co.Interval = 0
                     THEN [NoBackOff EXCEPT !.type = "Zero"]
                     ELSE [NoBackOff EXCEPT !.type = "Constant", !.Interval = co.Interval]
         IN IF co.MaxRetries > 0 THEN LibWithMaxRetries(base, co.MaxRetries) ELSE base

\* variant: the limiter is not installed
exponentialOptionNewUnlimited(eo, clock) == NewExponentialBackOff(eo.Options, clock)

\* func (eo *exponentialOption) New() (b backoff.BackOff)
exponentialOptionNew(eo, clock) ==
    LET base == NewExponentialBackOff(eo.Options, clock)
    IN IF eo.MaxRetries > 0 THEN LibWithMaxRetries(base, eo.MaxRetries) ELSE base

\* fn(): co.New or eo.New, whichever the factory captured
New(p, clock) ==
    IF p.family = "constant" THEN constantOptionNew(p) ELSE exponentialOptionNew(p, clock)

\* getRandomValueFromInterval over every random in [0, 1): with factor 0 the
\* interval itself, else every integer time.Duration(min + random*(max-min+1)) can be
RandomValues(bb) ==
    IF bb.type # "Exponential" THEN {0}
    ELSE LET num == bb.RandomizationFactor[1]
             den == bb.RandomizationFactor[2]
             cur == bb.currentInterval
         IN IF num = 0 THEN {cur}
            ELSE ((cur * (den - num)) \div den) ..
                 ((cur * (den + num) + den - 1) \div den)

\* variant: the interval grows without the MaxInterval ceiling
incrementCurrentIntervalNoCap(bb) ==
    [bb EXCEPT !.currentInterval =
        (bb.currentInterval * bb.Multiplier[1]) \div bb.Multiplier[2]]

\* variant: the ceiling is tested against the interval before it is multiplied
incrementCurrentIntervalLateCap(bb) ==
    IF bb.currentInterval >= bb.MaxInterval
    THEN [bb EXCEPT !.currentInterval = bb.MaxInterval]
    ELSE [bb EXCEPT !.currentInterval =
            (bb.currentInterval * bb.Multiplier[1]) \div bb.Multiplier[2]]

\* ExponentialBackOff.incrementCurrentInterval
incrementCurrentInterval(bb) ==
    LET num == bb.Multiplier[1]
        den == bb.Multiplier[2]
    IN IF bb.currentInterval * num >= bb.MaxInterval * den
       THEN [bb EXCEPT !.currentInterval = bb.MaxInterval]
       ELSE [bb EXCEPT !.currentInterval = (bb.currentInterval * num) \div den]

\* variant: a strategy that reports Stop for its time budget resets itself
DelegateNextBackOffResetsOnStop(bb, clock, next) ==
    CASE bb.type = "Stop" -> [d |-> Stop, b |-> bb]
      [] bb.type = "Zero" -> [d |-> 0, b |-> bb]
      [] bb.type = "Constant" -> [d |-> bb.Interval, b |-> bb]
      [] OTHER ->
            LET elapsed == clock - bb.startTime
            IN IF bb.MaxElapsedTime # 0 /\ elapsed + next > bb.MaxElapsedTime
               THEN [d |-> bb.Stop, b |-> ResetDelegate(bb, clock)]
               ELSE [d |-> next, b |-> incrementCurrentInterval(bb)]

\* NextBackOff of the innermost strategy; next is the jittered value drawn
DelegateNextBackOff(bb, clock, next) ==
    CASE bb.type = "Stop" -> [d |-> Stop, b |-> bb]
      [] bb.type = "Zero" -> [d |-> 0, b |-> bb]
      [] bb.type = "Constant" -> [d |-> bb.Interval, b |-> bb]
      [] OTHER ->
            LET elapsed == clock - bb.startTime
            IN [d |-> IF bb.MaxElapsedTime # 0 /\ elapsed + next > bb.MaxElapsedTime
                      THEN bb.Stop ELSE next,
                b |-> incrementCurrentInterval(bb)]

\* variant: the limiter allows one call too many (maxTries < numTries)
NextBackOffOffByOne(bb, clock, next) ==
    IF bb.limited
    THEN IF bb.maxTries < bb.numTries
         THEN [d |-> Stop, b |-> bb]
         ELSE DelegateNextBackOff([bb EXCEPT !.numTries = bb.numTries + 1], clock, next)
    ELSE DelegateNextBackOff(bb, clock, next)

\* backOffTries.NextBackOff when the strategy is wrapped, else the strategy's own
NextBackOff(bb, clock, next) ==
    IF bb.limited
    THEN IF bb.maxTries <= bb.numTries
         THEN [d |-> Stop, b |-> bb]
         ELSE DelegateNextBackOff([bb EXCEPT !.numTries = bb.numTries + 1], clock, next)
    ELSE DelegateNextBackOff(bb, clock, next)

(* ------------------------------ policies ------------------------------- *)

\* the arguments of a call NewConstant(interval, options...)
Constant(interval, options) ==
    [family |-> "constant", interval |-> interval, options |-> options]

\* the arguments of a call NewExponential(options...)
Exponential(options) == [family |-> "exponential", interval |-> 0, options |-> options]

\* NewConstant / NewExponential (and the Duration variants): the option struct the
\* factory captures
NewFactory(a) ==
    IF a.family = "constant"
    THEN newConstantOption(a.interval, a.options)
    ELSE newExponentialOption(a.options)

\* NewConstant(interval, WithMaxRetries(n)) and NewConstant(interval)
ConstantArguments ==
    {Constant(d, <<WithMaxRetries(n)>>) : d \in Intervals, n \in 0..MaxN}
    \cup {Constant(d, <<>>) : d \in Intervals}

ConstantPolicies == {NewFactory(a) : a \in ConstantArguments}

\* NewExponential with every field of the strategy set by an option, without jitter
ExponentialArguments ==
    {Exponential(<<WithInitialInterval(ii), WithRandomizationFactor(<<0, 1>>),
                   WithMultiplier(m), WithMaxInterval(mi),
                   WithMaxElapsedTime(me), WithMaxRetries(n)>>) :
        ii \in InitialIntervals, m \in Multipliers,
        mi \in MaxIntervals, me \in MaxElapsedTimes, n \in 0..MaxN}

ExponentialPolicies == {NewFactory(a) : a \in ExponentialArguments}

\* NewExponential with jitter of one half of the interval, without and with a limit
JitterArguments ==
    {Exponential(<<WithInitialInterval(1), WithRandomizationFactor(<<1, 2>>),
                   WithMultiplier(<<2, 1>>), WithMaxInterval(2),
                   WithMaxElapsedTime(0), WithMaxRetries(n)>>) :
        n \in {0, 2}}

JitterPolicies == {NewFactory(a) : a \in JitterArguments}

\* The policy of ExampleNewExponentialDuration (milliseconds), and one retry more
DocumentedArguments ==
    {Exponential(<<WithInitialInterval(10000), WithRandomizationFactor(<<0, 1>>),
                   WithMaxRetries(n)>>) : n \in {5, 6}}

DocumentedPolicies == {NewFactory(a) : a \in DocumentedArguments}

\* the policies the fair specifications run: every constant policy, the doubling
\* exponential ones and those with jitter
LivePolicies ==
    ConstantPolicies \cup JitterPolicies
    \cup {newExponentialOption(<<WithInitialInterval(1), WithRandomizationFactor(<<0, 1>>),
                                 WithMultiplier(<<2, 1>>), WithMaxInterval(mi),
                                 WithMaxElapsedTime(me), WithMaxRetries(n)>>) :
            mi \in MaxIntervals, me \in MaxElapsedTimes, n \in 0..MaxN}

\* NewExponential with an initial interval above the ceiling
SteepArguments ==
    {Exponential(<<WithInitialInterval(3), WithRandomizationFactor(<<0, 1>>),
                   WithMultiplier(<<2, 1>>), WithMaxInterval(2),
                   WithMaxElapsedTime(0), WithMaxRetries(2)>>)}

Arguments ==
    ConstantArguments \cup ExponentialArguments \cup JitterArguments \cup DocumentedArguments
    \cup SteepArguments

Policies == {NewFactory(a) : a \in Arguments}

(* ------------------------- the Retry loop ------------------------------ *)

NoCancel == [pc |-> "none", k |-> 0, fired |-> FALSE, deadline |-> 0]

NoTimer == [armed |-> FALSE, fired |-> FALSE, deadline |-> 0, d |-> 0]

\* variant: the timer is started with no duration, it is due at once
TimerStartZero(d, clock) == [armed |-> TRUE, fired |-> FALSE, deadline |-> clock, d |-> 0]

\* Timer.Start(duration)
TimerStart(d, clock) == [armed |-> TRUE, fired |-> FALSE, deadline |-> clock + d, d |-> d]

\* variant: the strategy step does not look at the context
ContextStopsNever(c) == FALSE

\* variant: a nil context is not told from one that is done
ContextStopsNil(c) == c # "live"

\* backOffContext.NextBackOff: a done context reports Stop without asking the strategy
ContextStops(c) == c = "done"

\* the cases of Retry's select that can proceed when the select is entered
SelectReady(c, t) ==
    (IF c = "done" THEN {"ctx"} ELSE {}) \cup (IF t.fired THEN {"timer"} ELSE {})

\* variant: the wait does not listen to the context
WokenByTimerOnly(w, case) == IF case = "ctx" \/ w # "none" THEN w ELSE case

\* variant: a later case overrides the one that woke the select
WokenLastWins(w, case) == case

\* a select that is parked is woken by the first case that becomes ready
Woken(w, case) == IF w = "none" THEN case ELSE w

\* variant: b := fn() is hoisted out of the sequence's closure, one strategy
\* instance serves every sequence of the factory
PrivateSharedStrategy ==
    {"mode", "ctx", "pc", "i", "timer", "wake", "yielded", "pairs", "waits",
     "calls", "how", "prevHow", "cancelAt"}

\* what belongs to one invocation of the sequence: the closure's ctx, i and b, the
\* Retry loop's position and timer, and what this consumer has been handed
Private ==
    {"mode", "ctx", "pc", "i", "b", "timer", "wake", "yielded", "pairs", "waits",
     "calls", "how", "prevHow", "cancelAt"}

\* the local state of the sequence the scheduler is running
Locals ==
    [mode |-> mode, ctx |-> ctx, pc |-> pc, i |-> i, b |-> b, timer |-> timer,
     wake |-> wake, yielded |-> yielded, pairs |-> pairs, waits |-> waits,
     calls |-> calls, how |-> how, prevHow |-> prevHow, cancelAt |-> cancelAt]

\* what a sequence finds in a variable when the scheduler resumes it: its own value
\* if the variable is private to it, else whatever the sequence before it left there
Resumed(name, left, own) == IF name \in Private THEN own ELSE left

\* the state after the constructor has been called with the arguments a, and
\* after n sequences of the factory have been run to their end and dropped
Used(a, n) ==
    /\ given = a
    /\ policy = NewFactory(a)
    /\ run = n
    /\ mode = "index"
    /\ ctx = "nil"
    /\ pc = "idle"
    /\ i = 0
    /\ b = NoBackOff
    /\ now = 0
    /\ timer = NoTimer
    /\ wake = "none"
    /\ yielded = <<>>
    /\ pairs = <<>>
    /\ waits = <<>>
    /\ calls = <<>>
    /\ how = "running"
    /\ prevHow = "none"
    /\ cancelAt = NoCancel
    /\ other = Locals
    /\ probes = <<>>

Init == \E a \in Arguments : Used(a, 0)

\* the strategy a new attempt-index sequence runs: b := fn(), then Retry's b.Reset()
newBackOff(p, clock) == Reset(New(p, clock), clock)

\* variant: fn() is called once and the strategy is kept between sequences
newBackOffDurationShared(p, clock) == IF run = 0 THEN New(p, clock) ELSE b

\* variant: the loop's first NextBackOff result is dropped before anything is yielded
newBackOffDurationSkipsFirst(p, clock) ==
    NextBackOff(New(p, clock), clock, New(p, clock).currentInterval).b

\* the strategy a new duration sequence runs: b := fn()
newBackOffDuration(p, clock) == New(p, clock)

\* BackOff(ctx): the sequence runs up to its first yield(0)
StartIndex(c) ==
    /\ pc \in {"idle", "done"}
    /\ run < MaxRuns
    /\ run' = run + 1
    /\ prevHow' = IF pc = "idle" THEN "none" ELSE how
    /\ mode' = "index"
    /\ ctx' = c
    /\ i' = 0
    /\ b' = newBackOff(policy, now)
    /\ timer' = NoTimer
    /\ wake' = "none"
    /\ yielded' = <<0>>
    /\ pairs' = <<>>
    /\ waits' = <<>>
    /\ calls' = <<>>
    /\ how' = "running"
    /\ cancelAt' = NoCancel
    /\ pc' = "consumer"
    /\ UNCHANGED <<policy, now>>
    /\ UNCHANGED <<given, other, probes>>

\* BackOffDuration(): the sequence runs up to its first NextBackOff
StartDuration ==
    /\ pc \in {"idle", "done"}
    /\ run < MaxRuns
    /\ run' = run + 1
    /\ prevHow' = IF pc = "idle" THEN "none" ELSE how
    /\ mode' = "duration"
    /\ ctx' = "nil"
    /\ i' = 0
    /\ b' = newBackOffDuration(policy, now)
    /\ timer' = NoTimer
    /\ wake' = "none"
    /\ yielded' = <<>>
    /\ pairs' = <<>>
    /\ waits' = <<>>
    /\ calls' = <<>>
    /\ how' = "running"
    /\ cancelAt' = NoCancel
    /\ pc' = "next"
    /\ UNCHANGED <<policy, now>>
    /\ UNCHANGED <<given, other, probes>>

\* variant: the task ignores yield's result and asks for a retry
AfterBreakIgnored == "next"

\* where the iteration goes when yield returns false
AfterBreak == "done"

\* yield returned true: i++ and on to the next delay
\* (a consumer is followed up to index MaxIndex, or to one past the retry limit)
ConsumerContinue ==
    /\ pc = "consumer"
    /\ i < MaxIndex \/ i <= policy.MaxRetries
    /\ i' = i + 1
    /\ pc' = "next"
    /\ UNCHANGED <<policy, run, mode, ctx, b, now, timer, wake, yielded, pairs, waits,
                   calls, how, prevHow, cancelAt>>
    /\ UNCHANGED <<given, other, probes>>

\* yield returned false: the task returns nil (index mode), the loop breaks (duration mode)
ConsumerBreak ==
    /\ pc = "consumer"
    /\ pc' = AfterBreak
    /\ how' = "break"
    /\ UNCHANGED <<policy, run, mode, ctx, i, b, now, timer, wake, yielded, pairs, waits,
                   calls, prevHow, cancelAt>>
    /\ UNCHANGED <<given, other, probes>>

\* variant: the strategy is handed to Retry without the context wrapper, only the
\* wait looks at the context
IndexNextUnwrapped ==
    /\ pc = "next"
    /\ mode = "index"
    /\ \E v \in RandomValues(b) :
         LET r == NextBackOff(b, now, v)
         IN /\ b' = r.b
            /\ calls' = Append(calls, r.d)
            /\ IF r.d = Stop
               THEN /\ pc' = "done"
                    /\ how' = "stop"
                    /\ UNCHANGED timer
               ELSE /\ pc' = "select"
                    /\ timer' = TimerStart(r.d, now)
                    /\ UNCHANGED how
    /\ UNCHANGED <<policy, run, mode, ctx, i, now, wake, yielded, pairs, waits, prevHow, cancelAt>>
    /\ UNCHANGED <<given, other, probes>>

\* Retry: next = b.NextBackOff(); Stop ends the loop, else t.Start(next)
IndexNext ==
    /\ pc = "next"
    /\ mode = "index"
    /\ IF ContextStops(ctx)
       THEN /\ pc' = "done"
            /\ how' = "cancel"
            /\ UNCHANGED <<b, calls, timer>>
       ELSE \E v \in RandomValues(b) :
              LET r == NextBackOff(b, now, v)
              IN /\ b' = r.b
                 /\ calls' = Append(calls, r.d)
                 /\ IF r.d = Stop
                    THEN /\ pc' = "done"
                         /\ how' = "stop"
                         /\ UNCHANGED timer
                    ELSE /\ pc' = "select"
                         /\ timer' = TimerStart(r.d, now)
                         /\ UNCHANGED how
    /\ UNCHANGED <<policy, run, mode, ctx, i, now, wake, yielded, pairs, waits, prevHow, cancelAt>>
    /\ UNCHANGED <<given, other, probes>>

\* the select took case c: ctx.Done() returns, t.C() loops to operation() and yield(i)
Take(c) ==
    IF c = "ctx"
    THEN /\ pc' = "done"
         /\ how' = "cancel"
         /\ timer' = NoTimer
         /\ UNCHANGED <<yielded, waits>>
    ELSE /\ pc' = "consumer"
         /\ waits' = Append(waits, timer.d)
         /\ yielded' = Append(yielded, i)
         /\ timer' = NoTimer
         /\ UNCHANGED how

\* Retry enters select { case <-ctx.Done(): ...; case <-t.C(): }
EnterSelect ==
    /\ pc = "select"
    /\ IF SelectReady(ctx, timer) = {}
       THEN /\ pc' = "parked"
            /\ UNCHANGED <<timer, yielded, waits, how>>
       ELSE \E c \in SelectReady(ctx, timer) : Take(c)
    /\ UNCHANGED <<policy, run, mode, ctx, i, b, now, wake, pairs, calls, prevHow, cancelAt>>
    /\ UNCHANGED <<given, other, probes>>

\* the parked select resumes with the case that woke it
Resume ==
    /\ pc = "parked"
    /\ wake # "none"
    /\ Take(wake)
    /\ wake' = "none"
    /\ UNCHANGED <<policy, run, mode, ctx, i, b, now, pairs, calls, prevHow, cancelAt>>
    /\ UNCHANGED <<given, other, probes>>

\* the timer's duration has passed: its channel becomes ready
TimerFire ==
    /\ timer.armed
    /\ ~timer.fired
    /\ now >= timer.deadline
    /\ timer' = [timer EXCEPT !.fired = TRUE]
    /\ wake' = IF pc = "parked" THEN Woken(wake, "timer") ELSE wake
    /\ UNCHANGED <<policy, run, mode, ctx, pc, i, b, now, yielded, pairs, waits, calls,
                   how, prevHow, cancelAt>>
    /\ UNCHANGED <<given, other, probes>>

\* the context given to the running sequence is cancelled (or its deadline passes)
Cancel ==
    /\ ctx = "live"
    /\ pc \notin {"idle", "done"}
    /\ ctx' = "done"
    /\ wake' = IF pc = "parked" THEN Woken(wake, "ctx") ELSE wake
    /\ cancelAt' = [pc |-> pc, k |-> i, fired |-> timer.fired, deadline |-> timer.deadline]
    /\ UNCHANGED <<policy, run, mode, pc, i, b, now, timer, yielded, pairs, waits, calls,
                   how, prevHow>>
    /\ UNCHANGED <<given, other, probes>>

\* variant: the loop does not test d against backoff.Stop, it yields every result
DurationNextIgnoresStop ==
    /\ pc = "next"
    /\ mode = "duration"
    /\ \E v \in RandomValues(b) :
         LET r == NextBackOff(b, now, v)
         IN /\ b' = r.b
            /\ calls' = Append(calls, r.d)
            /\ pc' = "consumer"
            /\ pairs' = Append(pairs, <<i, r.d>>)
            /\ UNCHANGED how
    /\ UNCHANGED <<policy, run, mode, ctx, i, now, timer, wake, yielded, waits, prevHow, cancelAt>>
    /\ UNCHANGED <<given, other, probes>>

\* newBackOffDuration: d := b.NextBackOff(); Stop breaks, else yield(i, d)
DurationNext ==
    /\ pc = "next"
    /\ mode = "duration"
    /\ \E v \in RandomValues(b) :
         LET r == NextBackOff(b, now, v)
         IN /\ b' = r.b
            /\ calls' = Append(calls, r.d)
            /\ IF r.d = Stop
               THEN /\ pc' = "done"
                    /\ how' = "stop"
                    /\ UNCHANGED pairs
               ELSE /\ pc' = "consumer"
                    /\ pairs' = Append(pairs, <<i, r.d>>)
                    /\ UNCHANGED how
    /\ UNCHANGED <<policy, run, mode, ctx, i, now, timer, wake, yielded, waits, prevHow, cancelAt>>
    /\ UNCHANGED <<given, other, probes>>

\* time passes while the consumer handles an element and while the loop waits
Tick ==
    /\ pc \in {"consumer", "select", "parked"}
    /\ now < MaxClock
    /\ now' = now + 1
    /\ UNCHANGED <<policy, run, mode, ctx, pc, i, b, timer, wake, yielded, pairs, waits,
                   calls, how, prevHow, cancelAt>>
    /\ UNCHANGED <<given, other, probes>>

\* the scheduler suspends the running sequence and runs the factory's other one,
\* which has not been started or has not finished
Switch ==
    /\ other.pc # "done"
    /\ other' = Locals
    /\ mode' = Resumed("mode", mode, other.mode)
    /\ ctx' = Resumed("ctx", ctx, other.ctx)
    /\ pc' = Resumed("pc", pc, other.pc)
    /\ i' = Resumed("i", i, other.i)
    /\ b' = Resumed("b", b, other.b)
    /\ timer' = Resumed("timer", timer, other.timer)
    /\ wake' = Resumed("wake", wake, other.wake)
    /\ yielded' = Resumed("yielded", yielded, other.yielded)
    /\ pairs' = Resumed("pairs", pairs, other.pairs)
    /\ waits' = Resumed("waits", waits, other.waits)
    /\ calls' = Resumed("calls", calls, other.calls)
    /\ how' = Resumed("how", how, other.how)
    /\ prevHow' = Resumed("prevHow", prevHow, other.prevHow)
    /\ cancelAt' = Resumed("cancelAt", cancelAt, other.cancelAt)
    /\ UNCHANGED <<policy, run, now, given, probes>>

Next ==
    \/ \E c \in {"nil", "live", "done"} : StartIndex(c)
    \/ StartDuration
    \/ ConsumerContinue
    \/ ConsumerBreak
    \/ IndexNext
    \/ EnterSelect
    \/ Resume
    \/ TimerFire
    \/ Cancel
    \/ DurationNext
    \/ Tick

Spec == Init /\ [][Next]_vars

LiveInit == Init /\ policy \in LivePolicies

\* the iteration's own steps are scheduled; nothing is assumed of the timer, the
\* clock, the consumer or the context
FairSpec ==
    /\ LiveInit /\ [][Next]_vars
    /\ WF_vars(IndexNext) /\ WF_vars(EnterSelect) /\ WF_vars(Resume)
    /\ WF_vars(DurationNext)

\* moreover time passes, a timer whose duration has passed fires and the consumer
\* returns from handling an element
LiveSpec ==
    /\ FairSpec
    /\ WF_vars(Tick) /\ WF_vars(TimerFire)
    /\ WF_vars(ConsumerContinue \/ ConsumerBreak)

\* the most NextBackOff calls and clock readings tried on a strategy after its Stop
MaxProbes == 2

\* a NextBackOff call on the strategy instance a sequence has left behind: the sequence
\* ended when the strategy reported Stop and the factory starts no other
Probe ==
    /\ pc = "done" /\ how = "stop" /\ run = MaxRuns
    /\ Len(probes) < MaxProbes
    /\ \E v \in RandomValues(b) :
         LET r == NextBackOff(b, now, v)
         IN /\ b' = r.b
            /\ probes' = Append(probes, [kind |-> "call", from |-> now, to |-> now, d |-> r.d])
    /\ UNCHANGED <<policy, run, mode, ctx, pc, i, now, timer, wake, yielded, pairs, waits,
                   calls, how, prevHow, cancelAt, given, other>>

\* the clock given by WithClockProvider is set to another reading, later or earlier
ClockSet ==
    /\ pc = "done" /\ how = "stop" /\ run = MaxRuns
    /\ Len(probes) < MaxProbes
    /\ \E t \in 0..MaxClock :
         /\ t # now
         /\ now' = t
         /\ probes' = Append(probes, [kind |-> "clock", from |-> now, to |-> t, d |-> 0])
    /\ UNCHANGED <<policy, run, mode, ctx, pc, i, b, timer, wake, yielded, pairs, waits,
                   calls, how, prevHow, cancelAt, given, other>>

\* NewExponential with a time budget: without jitter (unlimited and limited) and with
StrategyArguments ==
    {Exponential(<<WithInitialInterval(1), WithRandomizationFactor(<<0, 1>>),
                   WithMultiplier(<<2, 1>>), WithMaxInterval(3),
                   WithMaxElapsedTime(4), WithMaxRetries(n)>>) : n \in {0, MaxN}}
    \cup {Exponential(<<WithInitialInterval(2), WithRandomizationFactor(<<1, 2>>),
                        WithMultiplier(<<2, 1>>), WithMaxInterval(3),
                        WithMaxElapsedTime(4)>>)}

\* the factory's last sequence is run, then its strategy is tried further
StrategyInit == \E a \in StrategyArguments : Used(a, MaxRuns - 1)

StrategyNext == Next \/ Probe \/ ClockSet

\* a sequence of an exponential factory with a time budget, and calls on its strategy
\* after the sequence has ended
StrategySpec == StrategyInit /\ [][StrategyNext]_vars

\* constructor calls with two options for the same setting
OptionArguments ==
    {Constant(d, <<WithMaxRetries(m), WithMaxRetries(n)>>) :
        d \in {0 - 1, 1}, m \in 0..MaxN, n \in 0..MaxN}
    \cup {Exponential(<<WithMaxRetries(m), WithInitialInterval(ii), WithMaxInterval(3),
                        WithRandomizationFactor(<<0, 1>>), WithMaxElapsedTime(0),
                        WithInitialInterval(jj), WithMaxRetries(n)>>) :
            m \in {0, 1, MaxN}, n \in {0, 1, MaxN}, ii \in InitialIntervals, jj \in {1}}

OptionInit == \E a \in OptionArguments : Used(a, 0)

\* the sequences of factories built from repeated options
OptionSpec == OptionInit /\ [][Next]_vars

\* the factories whose two sequences are run side by side
ConcurrentArguments ==
    {Constant(1, <<WithMaxRetries(2)>>), Constant(0 - 1, <<>>)}
    \cup {Exponential(<<WithInitialInterval(1), WithRandomizationFactor(<<0, 1>>),
                        WithMultiplier(<<2, 1>>), WithMaxInterval(3),
                        WithMaxElapsedTime(0), WithMaxRetries(2)>>)}

\* the factory's last two sequences are the ones that overlap
ConcurrentInit == \E a \in ConcurrentArguments : Used(a, MaxRuns - 2)

ConcurrentNext == Next \/ Switch

\* two sequences of one factory, interleaved step by step in every order
ConcurrentSpec == ConcurrentInit /\ [][ConcurrentNext]_vars

TypeOK ==
    /\ pc \in {"idle", "consumer", "next", "select", "parked", "done"}
    /\ mode \in {"index", "duration"}
    /\ ctx \in {"nil", "live", "done"}
    /\ wake \in {"none", "ctx", "timer"}
    /\ how \in {"running", "stop", "break", "cancel"}
    /\ run \in 0..MaxRuns
    /\ now \in 0..MaxClock

(* ------------------------------ properties ----------------------------- *)

\* the sequence 0, 1, ..., n-1
Indices(n) == [k \in 1..n |-> k - 1]

IsConstant == policy.family = "constant"

\* C1 as stated: whenever the context is cancelled while the iteration is parked in
\* the wait that precedes index k, the consumer sees exactly 0..k-1, whether or not
\* the wait's timer had already expired.
C1_AsStated ==
    (mode = "index" /\ cancelAt.pc = "parked") => yielded = Indices(cancelAt.k)

\* C1 (amended): if the context is cancelled while the iteration is parked in the wait
\* that precedes index k and the wait's timer has not expired yet, the iteration stays
\* parked or ends by cancellation, and the consumer has seen exactly 0..k-1.
C1_CancelDuringWait ==
    (mode = "index" /\ cancelAt.pc = "parked" /\ ~cancelAt.fired) =>
        /\ yielded = Indices(cancelAt.k)
        /\ pc \in {"parked", "done"}
        /\ pc = "done" => how = "cancel"

C1_Witness ==
    /\ mode = "index" /\ pc = "done" /\ how = "cancel"
    /\ cancelAt.pc = "parked" /\ ~cancelAt.fired /\ cancelAt.k = 2
    /\ yielded = <<0, 1>>

\* C2: NewConstant(interval >= 0, maxRetries N > 0), attempt-index mode: the indices
\* yielded are always 0, 1, ... in order and never more than N+1, and a run that the
\* strategy ended (no break, no cancellation) has yielded exactly 0..N.
C2_ConstantYieldsZeroToN ==
    (IsConstant /\ policy.Interval >= 0 /\ policy.MaxRetries > 0 /\ mode = "index") =>
        /\ yielded = Indices(Len(yielded))
        /\ Len(yielded) <= policy.MaxRetries + 1
        /\ (pc = "done" /\ how = "stop") => yielded = Indices(policy.MaxRetries + 1)

C2_Witness ==
    /\ IsConstant /\ policy.Interval = 1 /\ policy.MaxRetries = 3
    /\ mode = "index" /\ pc = "done" /\ how = "stop" /\ ctx # "done"
    /\ yielded = <<0, 1, 2, 3>>

\* C3: NewConstant(interval < 0), attempt-index mode: once started the iteration has
\* yielded exactly index 0, never starts a wait, and ends at the first strategy call,
\* whatever maxRetries is.
C3_NeverRetry ==
    (IsConstant /\ policy.Interval < 0 /\ mode = "index" /\ pc # "idle") =>
        /\ yielded = <<0>>
        /\ waits = <<>>
        /\ ~timer.armed
        /\ pc \in {"consumer", "next", "done"}
        /\ Len(calls) <= 1
        /\ \A k \in 1..Len(calls) : calls[k] = Stop

C3_Witness ==
    /\ IsConstant /\ policy.Interval < 0 /\ policy.MaxRetries = 3
    /\ mode = "index" /\ pc = "done" /\ how = "stop"
    /\ yielded = <<0>> /\ calls = <<Stop>>

\* C4: in attempt-index mode, once the consumer has stopped after index j the
\* iteration is over: no strategy call, no timer start, no wait and no yield follows
\* (until the factory is invoked again), and j is the last index yielded.
C4_EarlyTermination ==
    /\ [](((mode = "index" /\ how = "break") =>
            /\ pc = "done"
            /\ ~timer.armed
            /\ yielded = Indices(i + 1)
            /\ Len(calls) = i
            /\ Len(waits) = i))
    /\ [][(mode = "index" /\ how = "break" /\ run' = run) =>
            UNCHANGED <<pc, i, b, timer, yielded, waits, calls, how>>]_vars

C4_Witness ==
    /\ mode = "index" /\ how = "break" /\ pc = "done"
    /\ i = 2 /\ yielded = <<0, 1, 2>> /\ Len(calls) = 2 /\ Len(waits) = 2

\* the strategy fields the policy configures (clock reading left out)
Configured == New(policy, 0)

IsDeterministic == IsConstant \/ Configured.RandomizationFactor[1] = 0

RECURSIVE Pow(_, _)
Pow(a, n) == IF n = 0 THEN 1 ELSE a * Pow(a, n - 1)

RECURSIVE Sum(_)
Sum(q) == IF q = <<>> THEN 0 ELSE Head(q) + Sum(Tail(q))

\* the k-th interval (k = 0, 1, ...) of an exponential policy without jitter:
\* InitialInterval, then times Multiplier truncated to a whole unit, MaxInterval
\* once the product reaches it
RECURSIVE ExpectedInterval(_)
ExpectedInterval(k) ==
    IF k = 0 THEN Configured.InitialInterval
    ELSE LET prev == ExpectedInterval(k - 1)
         IN IF prev * Configured.Multiplier[1] >= Configured.MaxInterval * Configured.Multiplier[2]
            THEN Configured.MaxInterval
            ELSE (prev * Configured.Multiplier[1]) \div Configured.Multiplier[2]

\* the k-th delay (k = 0, 1, ...) of a deterministic policy
ExpectedDelay(k) == IF IsConstant THEN policy.Interval ELSE ExpectedInterval(k)

\* C5: every invocation of the factory, whatever number it has and however the one
\* before ended, starts from a fresh strategy (no tries used, the initial interval)
\* and from index 0; the tries used and the delays computed depend on this
\* invocation's own calls only.
C5_FreshOnEveryInvocation ==
    pc # "idle" =>
        /\ calls = <<>> => ([b EXCEPT !.startTime = 0] = Configured /\ b.startTime <= now)
        /\ mode = "index" =>
             /\ yielded = Indices(Len(yielded))
             /\ pc = "consumer" => i = Len(yielded) - 1
             /\ i \in {Len(yielded) - 1, Len(yielded)}
        /\ mode = "duration" => \A k \in 1..Len(pairs) : pairs[k][1] = k - 1
        /\ b.limited =>
             b.numTries = (IF Len(calls) < b.maxTries THEN Len(calls) ELSE b.maxTries)
        /\ IsDeterministic =>
             \A k \in 1..Len(calls) : calls[k] # Stop => calls[k] = ExpectedDelay(k - 1)

C5_Witness ==
    /\ run = 2 /\ prevHow = "stop" /\ mode = "duration"
    /\ pc = "done" /\ how = "stop"
    /\ policy.MaxRetries = 2 /\ Len(pairs) = 2 /\ b.numTries = 2

\* C6: NewConstantDuration(d > 0, maxRetries N > 0): the pairs yielded are
\* (0, d), (1, d), ... in order, never more than N, and a run the strategy ended has
\* yielded exactly N pairs.
C6_ConstantDurationPairs ==
    (IsConstant /\ policy.Interval > 0 /\ policy.MaxRetries > 0 /\ mode = "duration") =>
        /\ Len(pairs) <= policy.MaxRetries
        /\ \A k \in 1..Len(pairs) : pairs[k] = <<k - 1, policy.Interval>>
        /\ (pc = "done" /\ how = "stop") => Len(pairs) = policy.MaxRetries

C6_Witness ==
    /\ IsConstant /\ policy.Interval = 2 /\ policy.MaxRetries = 3
    /\ mode = "duration" /\ pc = "done" /\ how = "stop"
    /\ pairs = <<<<0, 2>>, <<1, 2>>, <<2, 2>>>>

IsExponentialNoJitter ==
    policy.family = "exponential" /\ Configured.RandomizationFactor[1] = 0

\* C7 as stated: a drained duration-mode run of an exponential policy without jitter
\* and with maxRetries N > 0 has yielded exactly N pairs, the k-th with duration
\* I * M^k.
C7_AsStated ==
    (IsExponentialNoJitter /\ policy.MaxRetries > 0 /\ mode = "duration"
        /\ pc = "done" /\ how = "stop") =>
        /\ Len(pairs) = policy.MaxRetries
        /\ \A k \in 1..Len(pairs) :
             /\ pairs[k][1] = k - 1
             /\ pairs[k][2] * Pow(Configured.Multiplier[2], k - 1)
                  = Configured.InitialInterval * Pow(Configured.Multiplier[1], k - 1)

\* C7 (amended): the pairs are (k, d_k) with d_0 = I and d_(k+1) = d_k * M truncated
\* to a whole unit, or maxInterval once d_k * M reaches it; d_k is I * M^k whenever
\* that is a whole number not above maxInterval; there are never more than N pairs,
\* and fewer than N in a drained run only when maxElapsedTime is set and the time
\* elapsed plus the next interval exceeds it.
C7_ExponentialDurationPairs ==
    (IsExponentialNoJitter /\ policy.MaxRetries > 0 /\ mode = "duration") =>
        /\ Len(pairs) <= policy.MaxRetries
        /\ \A k \in 1..Len(pairs) :
             /\ pairs[k] = <<k - 1, ExpectedInterval(k - 1)>>
             /\ LET scaled == Configured.InitialInterval * Pow(Configured.Multiplier[1], k - 1)
                    unit == Pow(Configured.Multiplier[2], k - 1)
                IN (scaled % unit = 0 /\ scaled <= Configured.MaxInterval * unit)
                      => pairs[k][2] * unit = scaled
        /\ (pc = "done" /\ how = "stop" /\ Len(pairs) < policy.MaxRetries) =>
             /\ Configured.MaxElapsedTime # 0
             /\ (now - b.startTime) + ExpectedInterval(Len(pairs)) > Configured.MaxElapsedTime

C7_Witness ==
    /\ policy.family = "exponential" /\ policy.MaxRetries = 5
    /\ mode = "duration" /\ pc = "done" /\ how = "stop"
    /\ pairs = <<<<0, 10000>>, <<1, 15000>>, <<2, 22500>>, <<3, 33750>>, <<4, 50625>>>>

\* C8: NewConstant(d >= 0), attempt-index mode: whenever k+1 indices have been
\* yielded, exactly k waits have run to expiry, each of length d, k * d in total; a
\* wait in progress is for d, and the clock has advanced by at least the total.
C8_SuspendedTime ==
    (IsConstant /\ policy.Interval >= 0 /\ mode = "index" /\ pc # "idle") =>
        /\ Len(waits) = Len(yielded) - 1
        /\ \A k \in 1..Len(waits) : waits[k] = policy.Interval
        /\ Sum(waits) = (Len(yielded) - 1) * policy.Interval
        /\ timer.armed => timer.d = policy.Interval
        /\ run = 1 => now >= Sum(waits)

C8_Witness ==
    /\ IsConstant /\ policy.Interval = 1 /\ policy.MaxRetries = 3
    /\ mode = "index" /\ pc = "consumer"
    /\ yielded = <<0, 1, 2, 3>> /\ waits = <<1, 1, 1>> /\ Sum(waits) = 3

\* the context was cancelled while the iteration was parked in a wait whose timer
\* had not expired
CancelledInWait == mode = "index" /\ cancelAt.pc = "parked" /\ ~cancelAt.fired

\* C9: a cancellation that fires while the iteration is parked in a wait (timer not
\* expired) ends the iteration, with no fairness assumed of the timer or the clock:
\* the iteration eventually ends by cancellation, and the aborted wait is never
\* counted as run to expiry.
C9_CancelAbortsWait ==
    /\ (CancelledInWait /\ pc = "parked") ~> (pc = "done" /\ how = "cancel")
    /\ []((CancelledInWait /\ pc = "done") =>
            (how = "cancel" /\ Len(waits) = cancelAt.k - 1))

\* the run ended by cancellation before the aborted wait's delay had passed
C9_Witness ==
    /\ CancelledInWait /\ pc = "done" /\ how = "cancel"
    /\ cancelAt.k = 2 /\ waits = <<1>> /\ now < cancelAt.deadline

\* the explored clock range ends before the timer of the wait in progress is due
ClockExhausted ==
    pc \in {"select", "parked"} /\ timer.armed /\ ~timer.fired
        /\ now = MaxClock /\ now < timer.deadline

IsLimited == policy.MaxRetries > 0 /\ (IsConstant => policy.Interval >= 0)

\* C10: with maxRetries N > 0 the strategy gives at most N non-Stop results in one
\* iteration and Stop from then on, so at most N+1 indices or N pairs are yielded;
\* and every iteration ends, whatever the consumer and the context do, provided its
\* waits expire.
C10_LimiterTerminates ==
    /\ [](IsLimited =>
            /\ Len(yielded) <= policy.MaxRetries + 1
            /\ Len(pairs) <= policy.MaxRetries
            /\ \A k \in 1..Len(calls) : k > policy.MaxRetries => calls[k] = Stop)
    /\ (IsLimited /\ pc \notin {"idle", "done"}) ~> (pc = "done" \/ ClockExhausted)

\* an exponential policy with jitter, stopped by the limiter after two retries
C10_Witness ==
    /\ policy.family = "exponential" /\ policy.MaxRetries = 2 /\ ~IsDeterministic
    /\ mode = "index" /\ pc = "done" /\ how = "stop"
    /\ yielded = <<0, 1, 2>> /\ Len(calls) = 3 /\ calls[3] = Stop /\ calls[2] > 0

\* a constant policy that retries and has no limit: interval >= 0, maxRetries 0
IsUnlimitedConstant == IsConstant /\ policy.Interval >= 0 /\ policy.MaxRetries = 0

\* C11: with maxRetries 0 (or no WithMaxRetries) and interval >= 0 no limiter is
\* installed and the strategy never reports Stop: every call returns the interval.
\* An attempt-index iteration reaches every index (here: up to MaxIndex) unless the
\* consumer stops, the context is cancelled or a wait does not expire within the
\* explored clock range; a duration-mode iteration reaches every pair unless the
\* consumer stops.
C11_UnlimitedNeverEnds ==
    /\ [](IsUnlimitedConstant =>
            /\ how # "stop"
            /\ ~b.limited
            /\ \A k \in 1..Len(calls) : calls[k] = policy.Interval)
    /\ (IsUnlimitedConstant /\ mode = "index" /\ pc \notin {"idle", "done"}) ~>
            (Len(yielded) = MaxIndex + 1 \/ how = "break" \/ ctx = "done" \/ ClockExhausted)
    /\ (IsUnlimitedConstant /\ mode = "duration" /\ pc \notin {"idle", "done"}) ~>
            (Len(pairs) = MaxIndex + 1 \/ how = "break")

\* NewConstant(1) with no limit has yielded every explored index, one unit apart
C11_Witness ==
    /\ IsUnlimitedConstant /\ policy.Interval = 1 /\ mode = "index" /\ ctx # "done"
    /\ Len(yielded) = MaxIndex + 1 /\ Len(waits) = MaxIndex /\ how = "running"

\* the k-th strategy call (k = 1, 2, ...) of a sequence of a policy with no time
\* budget reports Stop: a negative constant interval, or the limiter's tries are used
StopExpected(k) ==
    \/ IsConstant /\ policy.Interval < 0
    \/ policy.MaxRetries > 0 /\ k > policy.MaxRetries

\* the local state l is one a sequence of this factory run on its own can be in:
\* indices, pairs, waits, strategy results and tries used follow from its own steps
AsAlone(l) ==
    (l.pc # "idle" /\ IsDeterministic /\ Configured.MaxElapsedTime = 0) =>
        /\ l.mode = "index" =>
             /\ l.yielded = Indices(Len(l.yielded))
             /\ Len(l.waits) = Len(l.yielded) - 1
             /\ \A k \in 1..Len(l.waits) : l.waits[k] = ExpectedDelay(k - 1)
        /\ l.mode = "duration" =>
             \A k \in 1..Len(l.pairs) : l.pairs[k] = <<k - 1, ExpectedDelay(k - 1)>>
        /\ l.b.limited =>
             l.b.numTries = (IF Len(l.calls) < l.b.maxTries THEN Len(l.calls) ELSE l.b.maxTries)
        /\ \A k \in 1..Len(l.calls) :
             l.calls[k] = (IF StopExpected(k) THEN Stop ELSE ExpectedDelay(k - 1))
        /\ l.how = "stop" => (Len(l.calls) > 0 /\ StopExpected(Len(l.calls)))
        /\ l.how = "cancel" => l.ctx = "done"
        /\ l.pc = "done" <=> l.how # "running"

\* C12: two sequences of the same factory, interleaved in every order, share no
\* mutable state: each is at every moment in a state it can be in when run alone
\* (its indices, delays, strategy results and tries follow from its own steps, it
\* ends by Stop only when its own tries are used and by cancellation only when its
\* own context is cancelled), and a suspended sequence resumes in exactly the local
\* state it was suspended in, whatever the other did meanwhile.
C12_ConcurrentSequencesIndependent ==
    /\ [](AsAlone(Locals) /\ AsAlone(other))
    /\ [][other' # other => (Locals' = other /\ other' = Locals)]_vars

\* one sequence of an exponential factory was cancelled after index 1; the other,
\* resumed after that, ran on to the limiter's Stop with its own delays 1 and 2
C12_Witness ==
    /\ policy.family = "exponential" /\ policy.MaxRetries = 2
    /\ other.mode = "index" /\ other.pc = "done" /\ other.how = "cancel"
    /\ other.yielded = <<0, 1>>
    /\ mode = "index" /\ pc = "done" /\ how = "stop"
    /\ yielded = <<0, 1, 2>> /\ waits = <<1, 2>> /\ b.numTries = 2

\* C13: a duration-mode iteration never suspends and takes no cancellation signal:
\* it has no context, no timer and no wait, so its suspended time is 0; each pair is
\* yielded in the same step as the one strategy call that computed its duration, at
\* the same clock reading; it ends exactly when the strategy reports Stop for the
\* first time or the consumer stops, never by cancellation.
C13_DurationNeverSuspends ==
    /\ []((mode = "duration" /\ pc # "idle") =>
            /\ pc \in {"next", "consumer", "done"}
            /\ ~timer.armed /\ wake = "none" /\ waits = <<>> /\ Sum(waits) = 0
            /\ ctx = "nil" /\ cancelAt = NoCancel
            /\ Len(calls) = Len(pairs) + (IF how = "stop" THEN 1 ELSE 0)
            /\ \A k \in 1..Len(pairs) : pairs[k] = <<k - 1, calls[k]>> /\ calls[k] # Stop
            /\ how = "stop" <=> (Len(calls) > 0 /\ calls[Len(calls)] = Stop)
            /\ pc = "done" <=> how \in {"stop", "break"})
    /\ [][(mode = "duration" /\ run' = run /\ pairs' # pairs) =>
            /\ Len(calls') = Len(calls) + 1
            /\ pairs' = Append(pairs, <<i, calls'[Len(calls')]>>)
            /\ now' = now]_vars

\* three pairs of two units each were yielded and Stop reported while the clock
\* stayed at 0
C13_Witness ==
    /\ IsConstant /\ policy.Interval = 2 /\ policy.MaxRetries = 3
    /\ mode = "duration" /\ pc = "done" /\ how = "stop"
    /\ pairs = <<<<0, 2>>, <<1, 2>>, <<2, 2>>>> /\ now = 0

\* the value of the last option called name in options, default if there is none
RECURSIVE LastOption(_, _, _)
LastOption(name, options, default) ==
    IF options = <<>> THEN default
    ELSE LET last == options[Len(options)]
         IN IF last.name = name THEN last.v
            ELSE LastOption(name, SubSeq(options, 1, Len(options) - 1), default)

\* the retry limit the constructor's arguments ask for
GivenMaxRetries == LastOption("MaxRetries", given.options, 0)

\* C14: options are applied in the order given and the last write to a setting wins:
\* the factory's retry limit is the value of the last WithMaxRetries (0, no limit, if
\* there is none or the last one is 0), the constant interval is the constructor's
\* argument whatever the options, every exponential setting is the value of its last
\* option or the library's default; the sequences the factory creates run with
\* exactly that limit.
C14_LastOptionWins ==
    /\ policy.family = given.family
    /\ policy.MaxRetries = GivenMaxRetries
    /\ IsConstant => policy.Interval = given.interval
    /\ ~IsConstant =>
         /\ Configured.InitialInterval
              = LastOption("InitialInterval", given.options, DefaultInitialInterval)
         /\ Configured.RandomizationFactor
              = LastOption("RandomizationFactor", given.options, DefaultRandomizationFactor)
         /\ Configured.Multiplier = LastOption("Multiplier", given.options, DefaultMultiplier)
         /\ Configured.MaxInterval
              = LastOption("MaxInterval", given.options, DefaultMaxInterval)
         /\ Configured.MaxElapsedTime
              = LastOption("MaxElapsedTime", given.options, DefaultMaxElapsedTime)
    /\ pc # "idle" =>
         /\ b.limited <=> (GivenMaxRetries > 0 /\ (IsConstant => given.interval >= 0))
         /\ b.limited => b.maxTries = GivenMaxRetries
         /\ (how = "stop" /\ Configured.MaxElapsedTime = 0) =>
              /\ b.type = "Stop" \/ GivenMaxRetries > 0
              /\ Len(yielded) + Len(pairs)
                   = (IF b.type = "Stop" THEN 0 ELSE GivenMaxRetries)
                     + (IF mode = "index" THEN 1 ELSE 0)

\* NewConstant(1, WithMaxRetries(3), WithMaxRetries(0)): the trailing 0 removed the
\* limit, the sequence went past index 4
C14_Witness ==
    /\ given = Constant(1, <<WithMaxRetries(3), WithMaxRetries(0)>>)
    /\ mode = "index" /\ how = "running" /\ ~b.limited
    /\ Len(yielded) > 4 /\ calls[4] = 1

IsExponential == policy.family = "exponential"

IntervalCeiling(k) == IF k = 1 THEN Configured.InitialInterval ELSE Configured.MaxInterval

C16_NilContextNeverFires ==
    (mode = "index" /\ ctx = "nil" /\ pc # "idle") =>
        /\ ~ENABLED Cancel
        /\ ContextStops("nil") = ContextStops("live")
        /\ SelectReady("nil", timer) = SelectReady("live", timer)
        /\ cancelAt = NoCancel /\ wake # "ctx"
        /\ pc = "done" <=> how \in {"stop", "break"}
        /\ how = "stop" <=> (Len(calls) > 0 /\ calls[Len(calls)] = Stop)
        /\ yielded = Indices(Len(waits) + 1)
        /\ \A k \in 1..Len(waits) : waits[k] = calls[k]

\* NewConstant(1, WithMaxRetries(3)) with a nil context ran to the limiter's Stop
C16_Witness ==
    /\ mode = "index" /\ ctx = "nil" /\ pc = "done" /\ how = "stop"
    /\ IsConstant /\ yielded = <<0, 1, 2, 3>> /\ waits = <<1, 1, 1>>

\* C17: the steps of an attempt-index iteration come in a fixed order.  Index 0 is
\* yielded before any strategy call; a strategy call is made only after the consumer
\* has handled the last index yielded; every index k >= 1 is yielded only when the
\* timer started for the delay of the k-th call, a result other than Stop, has
\* expired, so that indices, waits and calls correspond one to one; and once a call
\* has reported Stop no timer is started, nothing more is yielded and no call is made.
C17_StepOrdering ==
    /\ []((mode = "index" /\ pc # "idle") =>
            /\ yielded = Indices(Len(waits) + 1)
            /\ Len(calls) \in {Len(waits), Len(waits) + 1}
            /\ \A k \in 1..Len(waits) : waits[k] = calls[k] /\ calls[k] # Stop
            /\ pc \in {"consumer", "next"} => (Len(calls) = Len(waits) /\ ~timer.armed)
            /\ pc \in {"select", "parked"} =>
                 /\ Len(calls) = Len(waits) + 1
                 /\ timer.armed /\ timer.d = calls[Len(calls)]
                 /\ timer.deadline >= timer.d
            /\ (Len(calls) > 0 /\ calls[Len(calls)] = Stop) =>
                 (pc = "done" /\ how = "stop" /\ ~timer.armed))
    /\ [][(mode = "index" /\ run' = run /\ yielded' # yielded) =>
            /\ timer.armed /\ timer.fired /\ now >= timer.deadline
            /\ calls' = calls /\ Len(calls) = Len(waits) + 1
            /\ waits' = Append(waits, calls[Len(calls)])
            /\ yielded' = Append(yielded, Len(yielded))]_vars
    /\ [][(mode = "index" /\ run' = run /\ calls' # calls) =>
            /\ pc = "next" /\ i = Len(yielded) /\ Len(calls) = Len(yielded) - 1
            /\ yielded' = yielded /\ waits' = waits]_vars
    /\ [][(mode = "index" /\ run' = run /\ how = "stop") =>
            (yielded' = yielded /\ waits' = waits /\ calls' = calls /\ timer' = timer)]_vars

\* an exponential policy: calls 1, 2, Stop; waits 1, 2; indices 0, 1, 2
C17_Witness ==
    /\ mode = "index" /\ pc = "done" /\ how = "stop" /\ IsExponential
    /\ calls = <<1, 2, Stop>> /\ waits = <<1, 2>> /\ yielded = <<0, 1, 2>> /\ now >= 3

\* the context was cancelled while the consumer handled an index or just after, before
\* the next delay was computed
CancelledOutsideWait == mode = "index" /\ cancelAt.pc \in {"consumer", "next"}

\* C18 as stated: a sequence whose context was cancelled while it was not suspended
\* ends by cancellation only after the strategy has been consulted once more and
\* the wait for that delay has begun.
C18_AsStated ==
    (CancelledOutsideWait /\ pc = "done" /\ how = "cancel") => Len(calls) = Len(waits) + 1

\* C18 (amended): a cancellation that fires while the iteration is not suspended
\* does not interrupt the consumer, but it ends the sequence at the next delay
\* computation: the strategy is not consulted again, no timer is started, no wait
\* begins and no further index is yielded.  A cancellation that fires after the
\* delay was computed and before the wait blocks takes effect in that wait, or, if
\* the timer's case is taken, at the delay computation after the next index; the
\* strategy is not consulted again either.
C18_CancelEndsAtStrategyStep ==
    /\ CancelledOutsideWait =>
         /\ pc \in {"consumer", "next", "done"}
         /\ ~timer.armed
         /\ Len(calls) = Len(waits)
         /\ yielded = Indices(cancelAt.k + (IF cancelAt.pc = "consumer" THEN 1 ELSE 0))
         /\ pc = "done" => how \in {"cancel", "break"}
    /\ (mode = "index" /\ cancelAt.pc = "select") =>
         /\ Len(calls) = cancelAt.k
         /\ Len(yielded) \in {cancelAt.k, cancelAt.k + 1}
         /\ pc = "done" => how \in {"cancel", "break"}

\* cancelled while the consumer handled index 1: the sequence ended with one call and
\* one wait behind it, no second call was made
C18_Witness ==
    /\ CancelledOutsideWait /\ cancelAt.pc = "consumer" /\ cancelAt.k = 1
    /\ pc = "done" /\ how = "cancel"
    /\ yielded = <<0, 1>> /\ calls = <<1>> /\ waits = <<1>> /\ ~b.limited

\* the sequence was started with a context that was already done
StartedCancelled == mode = "index" /\ pc # "idle" /\ ctx = "done" /\ cancelAt = NoCancel

\* C19: once the context is done while the consumer handles index k, index k+1 is
\* never yielded.  In particular a sequence started with a context that is already
\* done yields index 0 exactly once and nothing else: the strategy is never called,
\* no timer is started, and the sequence ends by cancellation unless the consumer
\* stops first; this holds for every policy and every retry limit.
C19_NoYieldAfterCancel ==
    /\ StartedCancelled =>
         /\ yielded = <<0>> /\ calls = <<>> /\ waits = <<>>
         /\ ~timer.armed /\ b.numTries = 0
         /\ pc \in {"consumer", "next", "done"}
         /\ pc = "done" => how \in {"cancel", "break"}
    /\ (mode = "index" /\ cancelAt.pc = "consumer") =>
         /\ Len(yielded) = cancelAt.k + 1
         /\ pc \notin {"select", "parked"}

\* a limited exponential policy with jitter, started with a done context: index 0,
\* then the end by cancellation
C19_Witness ==
    /\ StartedCancelled /\ pc = "done" /\ how = "cancel" /\ yielded = <<0>>
    /\ IsExponential /\ ~IsDeterministic /\ b.limited /\ i = 1

\* the smaller of two numbers
Min(m, n) == IF m < n THEN m ELSE n

\* x, the local state of an attempt-index sequence, and d, that of a duration-mode
\* sequence of the same factory, show the same delays in the same order, and once
\* both have run to the strategy's Stop x has waited exactly the durations d has
\* yielded and has yielded one index more than d has yielded pairs
ModesAgree(x, d) ==
    (x.mode = "index" /\ d.mode = "duration" /\ x.pc # "idle" /\ d.pc # "idle"
        /\ IsDeterministic /\ Configured.MaxElapsedTime = 0) =>
        /\ \A k \in 1..Min(Len(x.waits), Len(d.pairs)) : x.waits[k] = d.pairs[k][2]
        /\ (x.how = "stop" /\ d.how = "stop") =>
             /\ x.waits = [k \in 1..Len(d.pairs) |-> d.pairs[k][2]]
             /\ Len(x.yielded) = Len(d.pairs) + 1
             /\ Len(x.calls) = Len(d.calls)

\* C20: the two modes are adapters over the same strategy.  For a deterministic
\* policy with no time budget, the delays an attempt-index sequence waits, in order,
\* are the durations a duration-mode sequence of the same factory yields; when both
\* run to the strategy's Stop (no cancellation, no consumer stop) the index sequence
\* has exactly one element more than the duration sequence: N+1 indices and N pairs
\* with maxRetries N, one index and no pair with a negative interval.
C20_ModesAgree == ModesAgree(Locals, other) /\ ModesAgree(other, Locals)

\* an exponential factory: the index sequence waited 1 and 2 and yielded 0, 1, 2; the
\* duration sequence yielded (0, 1) and (1, 2)
C20_Witness ==
    /\ IsExponential /\ policy.MaxRetries = 2
    /\ other.mode = "index" /\ other.how = "stop"
    /\ other.waits = <<1, 2>> /\ other.yielded = <<0, 1, 2>>
    /\ mode = "duration" /\ how = "stop" /\ pairs = <<<<0, 1>>, <<1, 2>>>>

\* the sequence ended because its exponential strategy reported Stop for the time
\* budget: the limiter, if there is one, had let the call through
BudgetStop ==
    /\ IsExponential /\ pc = "done" /\ how = "stop"
    /\ ~b.limited \/ Len(calls) <= b.maxTries

\* the clock was never set back before the k-th thing done with the strategy
NeverSetBack(k) == \A j \in 1..(k - 1) : probes[j].to >= probes[j].from

====
